---- MODULE Spec2Model ----
(***************************************************************************)
(* A model of package sdl: the spin lock and the atomic integer / pointer  *)
(* helpers of sdl/atomic.go, and the assertion engine (SDL_ReportAssertion,*)
(* SDL_enabled_assert, the registry list triggeredAssertions and its       *)
(* reset / report operations, SDL_SetAssertionHandler /                    *)
(* SDL_GetAssertionHandler and the default handler SDL_PromptAssertion).   *)
(*                                                                         *)
(* Goroutines are modelled as threads that interleave at every access to   *)
(* shared memory.  Each part of the package has its own specification      *)
(* (an Init and a Next over the same variables); the variables of the      *)
(* other parts stay at their initial values.                               *)
(***************************************************************************)
EXTENDS Integers, Sequences, FiniteSets, TLC

VARIABLES
    \* ---- SDL_SpinLock (sdl/atomic.go) ----
    lock,       \* SDL_SpinLock.lock: 0 unlocked, 1 locked
    lpc,        \* per thread: "idle", "spin" (inside Lock's loop), "held",
                \* "relock" (holding, and inside the loop of a second Lock),
                \* "held2" (holding, the second Lock has returned)
    ltry,       \* per thread: result of its last TryLock ("none" before any)
    lrounds,    \* per thread: number of acquisitions so far (bounds the run)
    \* ---- SDL_AtomicInt / atomic pointer (sdl/atomic.go) ----
    aval,       \* SDL_AtomicInt.value (int32)
    pval,       \* the uintptr an atomic pointer operation works on
    apc,        \* per thread: position inside SDL_AtomicDecRef / SDL_AtomicAdd
    aold,       \* per thread: the local `old` of SDL_AtomicAdd
    aret,       \* per thread: the value its call returned
    arepl,      \* per thread: the value atomic.AddInt32 replaced (history)
    last,       \* the last completed sequential call: op, arguments, results
    ncalls,     \* number of sequential calls made so far (bounds the run)
    \* ---- the assertion engine ----
    rec,                  \* the SDL_AssertData objects, by address 1..MaxRecs
    triggeredAssertions,  \* head of the registry list (NULL when empty)
    assertionHandler,     \* the active handler
    assertionData,        \* the userdata handed to the handler (NULL is nil)
    stack,                \* per thread: its call stack, innermost frame last
    exited,               \* 0 while the process runs, else its exit status
    nalloc,               \* number of SDL_AssertData objects that exist
    lastRet,              \* per thread: what SDL_ReportAssertion returned last
                          \* during its current top-level call
    lastGet,              \* per thread: what SDL_GetAssertionHandler returned
                          \* when it was the thread's last top-level call
    ops,                  \* per thread: top-level calls it may still make
    emitted,              \* entries printed since the current call began
    traps,                \* SDL_AssertBreakpoint calls since the current call began
    \* history of the run, read by the properties only
    failures,             \* per record: SDL_ReportAssertion calls made on it
                          \* since the last reset was called
    siteFails,            \* per call site: failed evaluations of its check
                          \* since the last reset was called
    recsite,              \* per record: the SDL_assert call site that made it
    sticky,               \* records the handler answered ALWAYS_IGNORE for
    stickySite,           \* call sites the handler answered ALWAYS_IGNORE for
    wasReset,             \* SDL_ResetAssertionReport has been called
    order,                \* the records that failed since the last reset was
                          \* called, in the order of their first failure
    cleared,              \* the records that were in the registry when the
                          \* last reset was called
    sets,                 \* the <<handler, userdata>> arguments of the
                          \* SDL_SetAssertionHandler calls made, oldest first
                          \* (the first entry is the pair the run starts with)
    \* ---- the process environment of SDL_PromptAssertion ----
    envr,                 \* the value of the environment variable SDL_ASSERT
    stdin,                \* the lines not yet read from os.Stdin
    prompts,              \* prompts written to os.Stderr since the current
                          \* top-level call began
    \* ---- SDL_MostSignificantBitIndex32 ----
    bx,         \* the uint32 argument, as its two 16-bit halves [hi, lo]
    bpc,        \* "call" before the call, "done" after it
    bret        \* the value returned (0 before the call)

lockVars   == <<lock, lpc, ltry, lrounds>>
atomicVars == <<aval, pval, apc, aold, aret, arepl, last, ncalls>>
engineVars == <<rec, triggeredAssertions, assertionHandler, assertionData, stack,
                exited, nalloc, lastRet, lastGet, ops, emitted, traps>>
histVars   == <<failures, siteFails, recsite, sticky, stickySite, wasReset,
                order, cleared, sets>>
promptVars == <<envr, stdin, prompts>>
assertVars == <<engineVars, histVars, promptVars>>
bitsVars   == <<bx, bpc, bret>>
vars       == <<lockVars, atomicVars, assertVars, bitsVars>>

(***************************************************************************)
(* Bounds of the model.                                                    *)
(***************************************************************************)
NLockThreads == 3      \* threads contending for one SDL_SpinLock
MaxRounds    == 2      \* acquisitions per thread
NRefThreads  == 3      \* threads sharing one reference count
MaxSeqCalls  == 3      \* atomic calls made by the single caller

LockThreads == 1..NLockThreads
RefThreads  == 1..NRefThreads

(***************************************************************************)
(* int32 arithmetic.                                                       *)
(***************************************************************************)
MaxInt32 == 2147483647
MinInt32 == (-MaxInt32) - 1

\* atomic.AddInt32: two's complement addition of two int32 values, computed
\* without leaving the int32 range.
AddInt32(a, v) ==
    IF v >= 0
    THEN IF a <= MaxInt32 - v THEN a + v
         ELSE ((a - MaxInt32) - 1) + ((v - MaxInt32) - 1)
    ELSE IF a >= MinInt32 - v THEN a + v
         ELSE ((a + MaxInt32) + 1) + ((v + MaxInt32) + 1)

\* The int32 values and the uintptr values the calls are tried on.
Int32Samples == {MinInt32, -1, 0, 1, 2, MaxInt32}
PtrSamples   == {0, 1, 2}
AddSamples   == {-1, 1, MinInt32}

(***************************************************************************)
(* SDL_SpinLock.                                                           *)
(***************************************************************************)
\* atomic.CompareAndSwapUintptr / atomic.CompareAndSwapInt32: does the swap
\* happen.
\* (Faulty variant: a plain store in place of the compare-and-swap.)
MutCasAlways(cur, old) == TRUE
\* (Faulty variant: the swap never happens.)
MutCasNever(cur, old) == FALSE
CasSucceeds(cur, old) == cur = old

\* ... and the value stored afterwards.
\* (Faulty variant: newval is stored whatever the comparison says.)
MutCasStoreAlways(cur, old, new) == new
CasStore(cur, old, new) == IF CasSucceeds(cur, old) THEN new ELSE cur

LockInit ==
    /\ lock = 0
    /\ lpc = [t \in LockThreads |-> "idle"]
    /\ ltry = [t \in LockThreads |-> "none"]
    /\ lrounds = [t \in LockThreads |-> 0]

\* One iteration of Lock's loop: the CAS, and on failure runtime.Gosched()
\* and `goto loop`.
SpinLock_Lock(t) ==
    /\ lpc[t] \in {"idle", "spin"}
    /\ lpc[t] = "idle" => lrounds[t] < MaxRounds
    /\ lock' = CasStore(lock, 0, 1)
    /\ IF CasSucceeds(lock, 0)
       THEN /\ lpc' = [lpc EXCEPT ![t] = "held"]
            /\ lrounds' = [lrounds EXCEPT ![t] = @ + 1]
       ELSE /\ lpc' = [lpc EXCEPT ![t] = "spin"]
            /\ UNCHANGED lrounds
    /\ UNCHANGED <<ltry, atomicVars, assertVars, bitsVars>>

\* TryLock (and SDL_TryLockSpinlock, which only forwards to it).
SpinLock_TryLock(t) ==
    /\ lpc[t] = "idle"
    /\ lrounds[t] < MaxRounds
    /\ lock' = CasStore(lock, 0, 1)
    /\ ltry' = [ltry EXCEPT ![t] = IF CasSucceeds(lock, 0) THEN "true" ELSE "false"]
    /\ IF CasSucceeds(lock, 0)
       THEN /\ lpc' = [lpc EXCEPT ![t] = "held"]
            /\ lrounds' = [lrounds EXCEPT ![t] = @ + 1]
       ELSE UNCHANGED <<lpc, lrounds>>
    /\ UNCHANGED <<atomicVars, assertVars, bitsVars>>

\* Lock called by the thread that holds the lock: one iteration of the
\* same loop.
SpinLock_Relock(t) ==
    /\ lpc[t] \in {"held", "relock"}
    /\ lock' = CasStore(lock, 0, 1)
    /\ lpc' = [lpc EXCEPT ![t] = IF CasSucceeds(lock, 0) THEN "held2" ELSE "relock"]
    /\ UNCHANGED <<ltry, lrounds, atomicVars, assertVars, bitsVars>>

\* Unlock, called by the thread that ends its critical section.
SpinLock_Unlock(t) ==
    /\ lpc[t] = "held"
    /\ lock' = 0
    /\ lpc' = [lpc EXCEPT ![t] = "idle"]
    /\ UNCHANGED <<ltry, lrounds, atomicVars, assertVars, bitsVars>>

(***************************************************************************)
(* SDL_AtomicInt and the atomic pointer: the results of the calls.         *)
(***************************************************************************)
\* SDL_AtomicDecRef: `SDL_AtomicAdd(a, -1) == 1`, on the value Add returned.
\* (Faulty variant: the comparison made for a value read after the decrement.)
MutDecRefPost(old) == old = 0
DecRefResult(old) == old = 1

\* SDL_AtomicSet: atomic.SwapInt32 returns the value it replaced.
AtomicSetResult(prev, v) == prev

\* SDL_AtomicSetPtr: atomic.StoreUintptr(a, v); return v.
AtomicSetPtrResult(prev, v) == v

NoCall == [op |-> "none", pre |-> 0, a1 |-> 0, a2 |-> 0, retb |-> FALSE, retv |-> 0]

AtomicIdle ==
    /\ apc = [t \in RefThreads |-> "off"]
    /\ aold = [t \in RefThreads |-> 0]
    /\ aret = [t \in RefThreads |-> FALSE]
    /\ arepl = [t \in RefThreads |-> 0]

(***************************************************************************)
(* A reference count shared by k threads, each calling SDL_AtomicDecRef    *)
(* once.  SDL_AtomicAdd reads a.value into `old` and then calls            *)
(* atomic.AddInt32: two accesses to shared memory, so two steps.           *)
(***************************************************************************)
RefInit ==
    /\ \E k \in 1..NRefThreads :
          /\ aval = k
          /\ apc = [t \in RefThreads |-> IF t <= k THEN "call" ELSE "off"]
    /\ pval = 0
    /\ aold = [t \in RefThreads |-> 0]
    /\ aret = [t \in RefThreads |-> FALSE]
    /\ arepl = [t \in RefThreads |-> 0]
    /\ last = NoCall
    /\ ncalls = 0

\* SDL_AtomicAdd, line 213: old := a.value
AtomicAdd_Read(t) ==
    /\ apc[t] = "call"
    /\ aold' = [aold EXCEPT ![t] = aval]
    /\ apc' = [apc EXCEPT ![t] = "read"]
    /\ UNCHANGED <<aval, pval, aret, arepl, last, ncalls, lockVars, assertVars, bitsVars>>

\* SDL_AtomicAdd, lines 214-215: atomic.AddInt32(&a.value, -1); return old,
\* and SDL_AtomicDecRef's comparison of the result with 1.
AtomicAdd_Apply(t) ==
    /\ apc[t] = "read"
    /\ aval' = AddInt32(aval, -1)
    /\ arepl' = [arepl EXCEPT ![t] = aval]
    /\ aret' = [aret EXCEPT ![t] = DecRefResult(aold[t])]
    /\ apc' = [apc EXCEPT ![t] = "done"]
    /\ UNCHANGED <<pval, aold, last, ncalls, lockVars, assertVars, bitsVars>>

(***************************************************************************)
(* The atomic operations called one at a time (a single caller).           *)
(***************************************************************************)
SeqInit ==
    /\ aval \in Int32Samples
    /\ pval \in PtrSamples
    /\ AtomicIdle
    /\ last = NoCall
    /\ ncalls = 0

\* Every sequential call counts itself.
Called ==
    /\ ncalls < MaxSeqCalls
    /\ ncalls' = ncalls + 1

SDL_AtomicCompareAndSwap(oldval, newval) ==
    /\ Called
    /\ aval' = CasStore(aval, oldval, newval)
    /\ last' = [op |-> "cas", pre |-> aval, a1 |-> oldval, a2 |-> newval,
                retb |-> CasSucceeds(aval, oldval), retv |-> 0]
    /\ UNCHANGED <<pval, apc, aold, aret, arepl, lockVars, assertVars, bitsVars>>

SDL_AtomicSet(v) ==
    /\ Called
    /\ aval' = v
    /\ last' = [op |-> "set", pre |-> aval, a1 |-> v, a2 |-> 0,
                retb |-> FALSE, retv |-> AtomicSetResult(aval, v)]
    /\ UNCHANGED <<pval, apc, aold, aret, arepl, lockVars, assertVars, bitsVars>>

SDL_AtomicGet ==
    /\ Called
    /\ last' = [op |-> "get", pre |-> aval, a1 |-> 0, a2 |-> 0,
                retb |-> FALSE, retv |-> aval]
    /\ UNCHANGED <<aval, pval, apc, aold, aret, arepl, lockVars, assertVars, bitsVars>>

\* SDL_AtomicAdd with a single caller: nothing runs between its read of
\* a.value and its atomic.AddInt32.
SDL_AtomicAdd(v) ==
    /\ Called
    /\ aval' = AddInt32(aval, v)
    /\ last' = [op |-> "add", pre |-> aval, a1 |-> v, a2 |-> 0,
                retb |-> FALSE, retv |-> aval]
    /\ UNCHANGED <<pval, apc, aold, aret, arepl, lockVars, assertVars, bitsVars>>

SDL_AtomicIncRef ==
    /\ Called
    /\ aval' = AddInt32(aval, 1)
    /\ last' = [op |-> "incref", pre |-> aval, a1 |-> 0, a2 |-> 0,
                retb |-> FALSE, retv |-> 0]
    /\ UNCHANGED <<pval, apc, aold, aret, arepl, lockVars, assertVars, bitsVars>>

SDL_AtomicDecRef ==
    /\ Called
    /\ aval' = AddInt32(aval, -1)
    /\ last' = [op |-> "decref", pre |-> aval, a1 |-> 0, a2 |-> 0,
                retb |-> DecRefResult(aval), retv |-> 0]
    /\ UNCHANGED <<pval, apc, aold, aret, arepl, lockVars, assertVars, bitsVars>>

SDL_AtomicCompareAndSwapPointer(oldval, newval) ==
    /\ Called
    /\ pval' = CasStore(pval, oldval, newval)
    /\ last' = [op |-> "casptr", pre |-> pval, a1 |-> oldval, a2 |-> newval,
                retb |-> CasSucceeds(pval, oldval), retv |-> 0]
    /\ UNCHANGED <<aval, apc, aold, aret, arepl, lockVars, assertVars, bitsVars>>

SDL_AtomicSetPtr(v) ==
    /\ Called
    /\ pval' = v
    /\ last' = [op |-> "setptr", pre |-> pval, a1 |-> v, a2 |-> 0,
                retb |-> FALSE, retv |-> AtomicSetPtrResult(pval, v)]
    /\ UNCHANGED <<aval, apc, aold, aret, arepl, lockVars, assertVars, bitsVars>>

SDL_AtomicGetPtr ==
    /\ Called
    /\ last' = [op |-> "getptr", pre |-> pval, a1 |-> 0, a2 |-> 0,
                retb |-> FALSE, retv |-> pval]
    /\ UNCHANGED <<aval, pval, apc, aold, aret, arepl, lockVars, assertVars, bitsVars>>

(***************************************************************************)
(* The assertion engine.                                                   *)
(***************************************************************************)
NAssertThreads == 2    \* threads that fail assertions
MaxFresh       == 2    \* SDL_AssertData objects made by SDL_enabled_assert
NSites         == 2    \* SDL_assert call sites
MaxOps         == 3    \* top-level calls of the single thread
MaxConcOps     == 2    \* top-level calls per thread, threads running together
MaxDepth       == 2    \* SDL_ReportAssertion calls nested on one stack
MaxLines       == 2    \* lines waiting on os.Stdin
MaxPromptCalls == 2    \* failures answered by SDL_PromptAssertion
MaxBlockedOps  == 1    \* failures of the first thread, threads waiting in handlers

AThreads == 1..NAssertThreads
\* The records that outlive a call, one per thread, and all the records.
NStatic  == NAssertThreads
MaxRecs  == NStatic + MaxFresh
Recs     == 1..MaxRecs
Statics  == 1..NStatic
Sites    == 1..NSites
NULL     == 0

\* SDL_AssertState
Verdicts == {"RETRY", "BREAK", "ABORT", "IGNORE", "ALWAYS_IGNORE"}

\* SDL_AssertData{}: the zero value of the struct.
ZeroData ==
    [AlwaysIgnore |-> FALSE, TriggerCount |-> 0, Filename |-> "",
     Linenum |-> 0, Function |-> "", Next |-> NULL]

\* What runtime.Caller(2) / runtime.FuncForPC give for call site s, and the
\* fn / file / line arguments a direct caller passes.
SiteLoc(s) == [fn |-> "pkg.check", file |-> "check.go", line |-> 10 * s]
CallLocs   == {[fn |-> "pkg.f", file |-> "f.go", line |-> 7],
               [fn |-> "pkg.g", file |-> "g.go", line |-> 8]}

\* The handlers an application installs (SDL_AssertionHandler): what the
\* handler may answer, and whether its own code may fail an assertion.
\* "prompt" is SDL_PromptAssertion, whose answer is computed further down.
Handlers == {"ignore", "any", "reentrant", "prompt"}
HandlerVerdicts(h) == IF h = "ignore" THEN {"IGNORE"}
                      ELSE IF h = "prompt" THEN {}
                      ELSE Verdicts
HandlerMayFail(h)  == h = "reentrant"

\* ---- call stacks ----
\* A frame holds the parameters and locals of the call (data, loc, state,
\* running, mutex, cond, item; h and ctx are the handler and userdata a call
\* has read or was given) and, for the properties, site, hfailed and now:
\* the value the checked expression of SDL_assert has at present.
Frame(fn, pc, data, loc, cond, site) ==
    [fn |-> fn, pc |-> pc, data |-> data, loc |-> loc, state |-> "IGNORE",
     running |-> 0, mutex |-> FALSE, cond |-> cond, site |-> site, item |-> NULL,
     hfailed |-> FALSE, h |-> "", ctx |-> NULL, now |-> cond]

NoLoc == [fn |-> "", file |-> "", line |-> 0]

\* SDL_ReportAssertion, lines 64-65: state = SDL_ASSERTION_IGNORE,
\* assertionRunning = 0 and a new, unlocked mutex, all local to the call.
ReportFrame(r, loc) == Frame("report", "lock", r, loc, FALSE, 0)

Depth(t)   == Len(stack[t])
Idle(t)    == stack[t] = <<>>
Top(t)     == stack[t][Len(stack[t])]
At(t, fn, pc) == /\ stack[t] # <<>>
                 /\ Top(t).fn = fn
                 /\ Top(t).pc = pc
SetTop(t, f) == [stack EXCEPT ![t] = [@ EXCEPT ![Len(@)] = f]]
Push(t, f)   == [stack EXCEPT ![t] = Append(@, f)]
Pop(t)       == [stack EXCEPT ![t] = SubSeq(@, 1, Len(@) - 1)]

\* The caller of a returning SDL_ReportAssertion: SDL_enabled_assert takes
\* the result into its `state`; a handler that made the call goes on.
Deliver(stk, v) ==
    IF stk = <<>> THEN stk
    ELSE LET c == stk[Len(stk)] IN
         IF c.fn = "assert"
         THEN [stk EXCEPT ![Len(stk)] = [c EXCEPT !.state = v, !.pc = "after"]]
         ELSE stk

\* The registry list from its head: the records reached by following Next
\* (at most MaxRecs links are followed, so a cycle ends the walk).
RECURSIVE Walk(_, _)
Walk(item, n) ==
    IF item = NULL \/ n = 0 THEN <<>>
    ELSE <<item>> \o Walk(rec[item].Next, n - 1)
List == Walk(triggeredAssertions, MaxRecs + 1)
InList(r) == \E i \in 1..Len(List) : List[i] = r
Occurrences(r) == Cardinality({i \in 1..Len(List) : List[i] = r})

EngineInit(h, calls) ==
    /\ rec = [r \in Recs |-> ZeroData]
    /\ triggeredAssertions = NULL
    /\ assertionHandler = h
    /\ assertionData = NULL
    /\ stack = [t \in AThreads |-> <<>>]
    /\ exited = 0
    /\ nalloc = NStatic
    /\ lastRet = [t \in AThreads |-> "none"]
    /\ lastGet = [t \in AThreads |-> <<>>]
    /\ ops = calls
    /\ emitted = <<>>
    /\ traps = 0
    /\ failures = [r \in Recs |-> 0]
    /\ siteFails = [s \in Sites |-> 0]
    /\ recsite = [r \in Recs |-> 0]
    /\ sticky = {}
    /\ stickySite = {}
    /\ wasReset = FALSE
    /\ order = <<>>
    /\ cleared = {}
    /\ sets = <<<<h, NULL>>>>

Alive == exited = 0

\* A top-level call: the thread runs nothing else and has calls left.  What
\* was observed of the call before it (result, output, traps) is dropped.
TopLevel(t) ==
    /\ Alive
    /\ Idle(t)
    /\ ops[t] > 0
    /\ ops' = [ops EXCEPT ![t] = @ - 1]
    /\ lastRet' = [lastRet EXCEPT ![t] = "none"]
    /\ lastGet' = [lastGet EXCEPT ![t] = <<>>]
    /\ emitted' = <<>>
    /\ traps' = 0

\* ---- SDL_ReportAssertion(data, fn, file, line) ----
\* A direct call on record r.
Failed(r) ==
    /\ failures' = [failures EXCEPT ![r] = @ + 1]
    /\ order' = IF failures[r] = 0 THEN Append(order, r) ELSE order

Report_Call(t, r, loc) ==
    /\ TopLevel(t)
    /\ stack' = Push(t, ReportFrame(r, loc))
    /\ Failed(r)
    /\ UNCHANGED <<rec, triggeredAssertions, assertionHandler, assertionData, exited, nalloc>>
    /\ UNCHANGED <<siteFails, recsite, sticky, stickySite, wasReset, cleared, sets>>
    /\ UNCHANGED <<lockVars, atomicVars>>
    /\ UNCHANGED <<promptVars, bitsVars>>

\* (Faulty variant: one mutex for all calls, held until the call returns.)
MutLockShared(t) ==
    /\ Alive
    /\ At(t, "report", "lock")
    /\ \A u \in AThreads : \A i \in 1..Len(stack[u]) : ~stack[u][i].mutex
    /\ stack' = SetTop(t, [Top(t) EXCEPT !.mutex = TRUE, !.pc = "capture"])
    /\ UNCHANGED <<rec, triggeredAssertions, assertionHandler, assertionData, exited,
                   nalloc, lastRet, lastGet, ops, emitted, traps, histVars,
                   lockVars, atomicVars, promptVars, bitsVars>>

\* lines 66-68: var mutex sync.Mutex; mutex.Lock().  The mutex is a local
\* of this call: it is always free, and the call holds it until it returns.
Report_Lock(t) ==
    /\ Alive
    /\ At(t, "report", "lock")
    /\ stack' = SetTop(t, [Top(t) EXCEPT !.mutex = TRUE, !.pc = "capture"])
    /\ UNCHANGED <<rec, triggeredAssertions, assertionHandler, assertionData, exited, nalloc,
                   lastRet, lastGet, ops, emitted, traps, histVars, lockVars, atomicVars>>
    /\ UNCHANGED <<promptVars, bitsVars>>

\* lines 70-74: the location is captured when TriggerCount is 0.
\* (Faulty variant: the location is captured only into a record that has
\* none yet.)
MutCaptureOnce(d) == d.Function = ""
\* (Faulty variant: the location is captured at every call.)
MutCaptureAlways(d) == TRUE
CaptureNeeded(d) == d.TriggerCount = 0
Report_Capture(t) ==
    /\ Alive
    /\ At(t, "report", "capture")
    /\ LET f == Top(t) IN
       rec' = IF CaptureNeeded(rec[f.data])
              THEN [rec EXCEPT ![f.data] = [@ EXCEPT !.Function = f.loc.fn,
                                                     !.Filename = f.loc.file,
                                                     !.Linenum = f.loc.line]]
              ELSE rec
    /\ stack' = SetTop(t, [Top(t) EXCEPT !.pc = "add"])
    /\ UNCHANGED <<triggeredAssertions, assertionHandler, assertionData, exited, nalloc,
                   lastRet, lastGet, ops, emitted, traps, histVars, lockVars, atomicVars>>
    /\ UNCHANGED <<promptVars, bitsVars>>

\* SDL_AddAssertionToReport, lines 289-290: data.TriggerCount++ and the
\* test for the first trigger.
\* (Faulty variant: the record is linked in at every trigger.)
MutAlwaysLink(count) == TRUE
FirstTrigger(count) == count = 1
Report_Add(t) ==
    /\ Alive
    /\ At(t, "report", "add")
    /\ LET d == Top(t).data IN
       /\ rec' = [rec EXCEPT ![d].TriggerCount = @ + 1]
       /\ stack' = SetTop(t, [Top(t) EXCEPT !.pc =
                        IF FirstTrigger(rec[d].TriggerCount + 1) THEN "link" ELSE "depth"])
    /\ UNCHANGED <<triggeredAssertions, assertionHandler, assertionData, exited, nalloc,
                   lastRet, lastGet, ops, emitted, traps, histVars, lockVars, atomicVars>>
    /\ UNCHANGED <<promptVars, bitsVars>>

\* SDL_AddAssertionToReport, line 291: data.Next = triggeredAssertions
Report_Link(t) ==
    /\ Alive
    /\ At(t, "report", "link")
    /\ rec' = [rec EXCEPT ![Top(t).data].Next = triggeredAssertions]
    /\ stack' = SetTop(t, [Top(t) EXCEPT !.pc = "publish"])
    /\ UNCHANGED <<triggeredAssertions, assertionHandler, assertionData, exited, nalloc,
                   lastRet, lastGet, ops, emitted, traps, histVars, lockVars, atomicVars>>
    /\ UNCHANGED <<promptVars, bitsVars>>

\* SDL_AddAssertionToReport, line 292: triggeredAssertions = data
Report_Publish(t) ==
    /\ Alive
    /\ At(t, "report", "publish")
    /\ triggeredAssertions' = Top(t).data
    /\ stack' = SetTop(t, [Top(t) EXCEPT !.pc = "depth"])
    /\ UNCHANGED <<rec, assertionHandler, assertionData, exited, nalloc,
                   lastRet, lastGet, ops, emitted, traps, histVars, lockVars, atomicVars>>
    /\ UNCHANGED <<promptVars, bitsVars>>

\* lines 78-90: assertionRunning++ on the call's own counter, the
\* escalation when it exceeds 1, the test of AlwaysIgnore and, for the
\* handler call, the read of assertionHandler.
Report_Depth(t) ==
    /\ Alive
    /\ At(t, "report", "depth")
    /\ LET f == Top(t)
           running == f.running + 1
           d == f.data
       IN
       IF running = 2 \/ running = 3
       THEN \* SDL_AbortAssertion() / SDL_ExitProcess(42)
            /\ exited' = 42
            /\ UNCHANGED stack
       ELSE /\ UNCHANGED exited
            /\ stack' = SetTop(t, IF ~rec[d].AlwaysIgnore
                                   THEN [f EXCEPT !.running = running,
                                                  !.h = assertionHandler,
                                                  !.pc = "invoke"]
                                   ELSE [f EXCEPT !.running = running,
                                                  !.pc = "finish"])
    /\ UNCHANGED <<rec, triggeredAssertions, assertionHandler, assertionData, nalloc,
                   lastRet, lastGet, ops, emitted, traps>>
    /\ UNCHANGED histVars
    /\ UNCHANGED <<lockVars, atomicVars>>
    /\ UNCHANGED <<promptVars, bitsVars>>

\* line 90: the read of assertionData, and the handler is entered.
Report_Invoke(t) ==
    /\ Alive
    /\ At(t, "report", "invoke")
    /\ stack' = SetTop(t, [Top(t) EXCEPT !.ctx = assertionData, !.pc = "handler"])
    /\ UNCHANGED <<rec, triggeredAssertions, assertionHandler, assertionData, exited,
                   nalloc, lastRet, lastGet, ops, emitted, traps, histVars,
                   lockVars, atomicVars, promptVars, bitsVars>>

\* ---- SDL_PromptAssertion(data, userdata), the default handler ----
\* The values SDL_ASSERT is given, "" for unset or empty.
EnvValues == {"", "abort", "break", "retry", "ignore", "always_ignore",
              "IGNORE", "1"}

\* A line of input is the sequence of its blank-separated tokens, each a
\* single character here; the input is a sequence of lines.
Lines == {<<>>, <<"a">>, <<"b">>, <<"r">>, <<"i">>, <<"A">>, <<"x">>, <<"x", "i">>}
RECURSIVE SeqsUpTo(_, _)
SeqsUpTo(S, n) ==
    IF n = 0 THEN {<<>>}
    ELSE LET shorter == SeqsUpTo(S, n - 1) IN
         shorter \cup {Append(q, x) : q \in shorter, x \in S}
Inputs == SeqsUpTo(Lines, MaxLines)

\* lines 388-404: the verdict SDL_ASSERT stands for.
\* (Faulty variant: a value that is not one of the five names is ignored.)
MutEnvUnknownIgnored(e) ==
    CASE e = "abort" -> "ABORT"
      [] e = "break" -> "BREAK"
      [] e = "retry" -> "RETRY"
      [] e = "always_ignore" -> "ALWAYS_IGNORE"
      [] OTHER -> "IGNORE"
EnvVerdict(e) ==
    IF e = "abort" THEN "ABORT"
    ELSE IF e = "break" THEN "BREAK"
    ELSE IF e = "retry" THEN "RETRY"
    ELSE IF e = "ignore" THEN "IGNORE"
    ELSE IF e = "always_ignore" THEN "ALWAYS_IGNORE"
    ELSE "ABORT"

\* fmt.Fscanln(os.Stdin, &buf) on the input in: the count c, whether err is
\* non-nil, buf, and the input left.  At end of input, and on a line without
\* a token, nothing is stored and err is set (the newline is consumed).  A
\* line of one token is stored and consumed.  On a longer line the first
\* token is stored, and the scan fails with "expected newline" on the first
\* character of the second token, which is consumed: what follows the second
\* token stays in the input as a line.
Fscanln(in) ==
    IF in = <<>> THEN [c |-> 0, err |-> TRUE, buf |-> "", rest |-> <<>>]
    ELSE LET line == Head(in) IN
         IF line = <<>>
         THEN [c |-> 0, err |-> TRUE, buf |-> "", rest |-> Tail(in)]
         ELSE IF Len(line) = 1
         THEN [c |-> 1, err |-> FALSE, buf |-> line[1], rest |-> Tail(in)]
         ELSE [c |-> 1, err |-> TRUE, buf |-> line[1],
               rest |-> <<Tail(Tail(line))>> \o Tail(in)]

\* lines 479-494: the state a recognized buf stands for ("" for any other).
Choice(buf) ==
    IF buf = "a" THEN "ABORT"
    ELSE IF buf = "b" THEN "BREAK"
    ELSE IF buf = "r" THEN "RETRY"
    ELSE IF buf = "i" THEN "IGNORE"
    ELSE IF buf = "A" THEN "ALWAYS_IGNORE"
    ELSE ""

\* lines 470-496: the prompt loop, n prompts written so far; state is
\* SDL_ASSERTION_ABORT unless a recognized buf sets it.
RECURSIVE PromptLoop(_, _)
PromptLoop(in, n) ==
    LET s == Fscanln(in) IN
    IF s.c = 0 \/ s.err
    THEN [state |-> "ABORT", rest |-> s.rest, prompts |-> n + 1]
    ELSE IF Choice(s.buf) # ""
    THEN [state |-> Choice(s.buf), rest |-> s.rest, prompts |-> n + 1]
    ELSE PromptLoop(s.rest, n + 1)

\* The whole function: its result, the input it leaves and the number of
\* prompts it writes, for SDL_ASSERT = e and the input in.
SDL_PromptAssertion(e, in) ==
    IF e # ""
    THEN [state |-> EnvVerdict(e), rest |-> in, prompts |-> 0]
    ELSE PromptLoop(in, 0)

\* line 90, the handler being SDL_PromptAssertion.
Prompt_Return(t) ==
    /\ Alive
    /\ At(t, "report", "handler")
    /\ Top(t).h = "prompt"
    /\ LET p == SDL_PromptAssertion(envr, stdin)
           d == Top(t).data
       IN
       /\ stack' = SetTop(t, [Top(t) EXCEPT !.state = p.state, !.pc = "finish"])
       /\ stdin' = p.rest
       /\ prompts' = prompts + p.prompts
       /\ IF p.state = "ALWAYS_IGNORE"
          THEN /\ sticky' = sticky \cup {d}
               /\ stickySite' = stickySite \cup ({recsite[d]} \ {0})
          ELSE UNCHANGED <<sticky, stickySite>>
    /\ UNCHANGED envr
    /\ UNCHANGED <<rec, triggeredAssertions, assertionHandler, assertionData, exited,
                   nalloc, lastRet, lastGet, ops, emitted, traps>>
    /\ UNCHANGED <<failures, siteFails, recsite, wasReset, order, cleared, sets>>
    /\ UNCHANGED <<lockVars, atomicVars, bitsVars>>

\* line 90: the handler answers with verdict v.
Handler_Return(t, v) ==
    /\ Alive
    /\ At(t, "report", "handler")
    /\ v \in HandlerVerdicts(Top(t).h)
    /\ stack' = SetTop(t, [Top(t) EXCEPT !.state = v, !.pc = "finish"])
    /\ LET d == Top(t).data IN
       IF v = "ALWAYS_IGNORE"
       THEN /\ sticky' = sticky \cup {d}
            /\ stickySite' = stickySite \cup ({recsite[d]} \ {0})
       ELSE UNCHANGED <<sticky, stickySite>>
    /\ UNCHANGED <<rec, triggeredAssertions, assertionHandler, assertionData, exited, nalloc,
                   lastRet, lastGet, ops, emitted, traps>>
    /\ UNCHANGED <<failures, siteFails, recsite, wasReset, order, cleared, sets>>
    /\ UNCHANGED <<lockVars, atomicVars>>
    /\ UNCHANGED <<promptVars, bitsVars>>

\* line 90: the handler's own code fails an assertion on record r before it
\* answers: SDL_ReportAssertion is entered again on the same stack.  (One
\* such failure per handler invocation: a second would repeat the first.)
Handler_Fail(t, r, loc) ==
    /\ Alive
    /\ At(t, "report", "handler")
    /\ HandlerMayFail(Top(t).h)
    /\ Depth(t) < MaxDepth
    /\ ~Top(t).hfailed
    /\ stack' = [stack EXCEPT ![t] =
                    Append([@ EXCEPT ![Len(@)].hfailed = TRUE], ReportFrame(r, loc))]
    /\ Failed(r)
    /\ UNCHANGED <<rec, triggeredAssertions, assertionHandler, assertionData, exited, nalloc,
                   lastRet, lastGet, ops, emitted, traps>>
    /\ UNCHANGED <<siteFails, recsite, sticky, stickySite, wasReset, cleared, sets>>
    /\ UNCHANGED <<lockVars, atomicVars>>
    /\ UNCHANGED <<promptVars, bitsVars>>

\* line 90, with line 118: while the handler runs for a failed SDL_assert,
\* the application puts right what the check tests (the usual reason to
\* answer RETRY): the checked expression is true from now on.  The
\* `condition` parameter of the SDL_enabled_assert call under way is a copy
\* made at the call and stays as it is.
Handler_Repair(t) ==
    /\ Alive
    /\ At(t, "report", "handler")
    /\ Depth(t) >= 2
    /\ stack[t][Depth(t) - 1].fn = "assert"
    /\ ~stack[t][Depth(t) - 1].now
    /\ stack' = [stack EXCEPT ![t] = [@ EXCEPT ![Len(@) - 1].now = TRUE]]
    /\ UNCHANGED <<rec, triggeredAssertions, assertionHandler, assertionData, exited,
                   nalloc, lastRet, lastGet, ops, emitted, traps, histVars,
                   lockVars, atomicVars, promptVars, bitsVars>>

\* lines 93-111: the switch on the verdict, assertionRunning--, the
\* deferred mutex.Unlock() and the return.
\* (Faulty variant: the verdict is returned as the handler gave it.)
MutReturnedAsGiven(state) == state
Returned(state) == IF state = "ALWAYS_IGNORE" THEN "IGNORE" ELSE state
\* (Faulty variant: SDL_AbortAssertion comes back and the verdict is returned.)
MutFinishAbortReturns(t) ==
    /\ Alive
    /\ At(t, "report", "finish")
    /\ LET f == Top(t) IN
       /\ UNCHANGED exited
       /\ rec' = IF f.state = "ALWAYS_IGNORE"
                 THEN [rec EXCEPT ![f.data].AlwaysIgnore = TRUE]
                 ELSE rec
       /\ stack' = [stack EXCEPT ![t] =
                       Deliver(SubSeq(@, 1, Len(@) - 1), Returned(f.state))]
       /\ lastRet' = [lastRet EXCEPT ![t] = Returned(f.state)]
    /\ UNCHANGED lastGet
    /\ UNCHANGED <<triggeredAssertions, assertionHandler, assertionData, nalloc,
                   ops, emitted, traps, histVars, lockVars, atomicVars, promptVars, bitsVars>>

Report_Finish(t) ==
    /\ Alive
    /\ At(t, "report", "finish")
    /\ LET f == Top(t) IN
       IF f.state = "ABORT"
       THEN \* SDL_AbortAssertion(): SDL_ExitProcess(42)
            /\ exited' = 42
            /\ UNCHANGED <<rec, stack, lastRet>>
       ELSE /\ UNCHANGED exited
            /\ rec' = IF f.state = "ALWAYS_IGNORE"
                      THEN [rec EXCEPT ![f.data].AlwaysIgnore = TRUE]
                      ELSE rec
            /\ stack' = [stack EXCEPT ![t] =
                            Deliver(SubSeq(@, 1, Len(@) - 1), Returned(f.state))]
            /\ lastRet' = [lastRet EXCEPT ![t] = Returned(f.state)]
    /\ UNCHANGED lastGet
    /\ UNCHANGED <<triggeredAssertions, assertionHandler, assertionData, nalloc,
                   ops, emitted, traps, histVars, lockVars, atomicVars>>
    /\ UNCHANGED <<promptVars, bitsVars>>

\* ---- SDL_enabled_assert(condition), reached through SDL_assert ----
\* The check at call site s, whose condition evaluated to cond.
Assert_Call(t, s, cond) ==
    /\ TopLevel(t)
    /\ stack' = Push(t, Frame("assert", "loop", NULL, NoLoc, cond, s))
    /\ UNCHANGED <<rec, triggeredAssertions, assertionHandler, assertionData, exited, nalloc,
                   histVars, lockVars, atomicVars>>
    /\ UNCHANGED <<promptVars, bitsVars>>

\* lines 119-123: `for !condition`, and in the loop body a new
\* SDL_AssertData{} that is handed to SDL_ReportAssertion.
Assert_Loop(t) ==
    /\ Alive
    /\ At(t, "assert", "loop")
    /\ LET f == Top(t) IN
       IF f.cond
       THEN /\ stack' = Pop(t)
            /\ UNCHANGED <<rec, nalloc, failures, siteFails, recsite, order>>
       ELSE /\ nalloc < MaxRecs
            /\ LET r == nalloc + 1 IN
               /\ nalloc' = r
               /\ rec' = [rec EXCEPT ![r] = ZeroData]
               /\ recsite' = [recsite EXCEPT ![r] = f.site]
               /\ Failed(r)
               /\ siteFails' = [siteFails EXCEPT ![f.site] = @ + 1]
               /\ stack' = [stack EXCEPT ![t] =
                     Append([@ EXCEPT ![Len(@)] = [f EXCEPT !.pc = "wait", !.data = r]],
                            ReportFrame(r, SiteLoc(f.site)))]
    /\ UNCHANGED <<triggeredAssertions, assertionHandler, assertionData, exited,
                   lastRet, lastGet, ops, emitted, traps>>
    /\ UNCHANGED <<sticky, stickySite, wasReset, cleared, sets>>
    /\ UNCHANGED <<lockVars, atomicVars>>
    /\ UNCHANGED <<promptVars, bitsVars>>

\* lines 124-129: RETRY goes round the loop, BREAK traps and leaves, any
\* other state leaves.
Assert_After(t) ==
    /\ Alive
    /\ At(t, "assert", "after")
    /\ LET f == Top(t) IN
       IF f.state = "RETRY"
       THEN /\ stack' = SetTop(t, [f EXCEPT !.pc = "loop"])
            /\ UNCHANGED traps
       ELSE /\ stack' = Pop(t)
            /\ traps' = IF f.state = "BREAK" THEN traps + 1 ELSE traps
    /\ UNCHANGED <<rec, triggeredAssertions, assertionHandler, assertionData, exited, nalloc,
                   lastRet, lastGet, ops, emitted, histVars, lockVars, atomicVars>>
    /\ UNCHANGED <<promptVars, bitsVars>>

\* ---- SDL_ResetAssertionReport() ----
\* line 265: item = triggeredAssertions
ResetFrame == [Frame("reset", "loop", NULL, NoLoc, FALSE, 0)
                 EXCEPT !.item = triggeredAssertions]

ResetCalled ==
    /\ wasReset' = TRUE
    /\ failures' = [r \in Recs |-> 0]
    /\ siteFails' = [s \in Sites |-> 0]
    /\ sticky' = {}
    /\ stickySite' = {}
    /\ order' = <<>>
    /\ cleared' = {r \in Recs : InList(r)}

Reset_Call(t) ==
    /\ TopLevel(t)
    /\ stack' = Push(t, ResetFrame)
    /\ ResetCalled
    /\ UNCHANGED <<rec, triggeredAssertions, assertionHandler, assertionData, exited, nalloc>>
    /\ UNCHANGED <<recsite, sets>>
    /\ UNCHANGED <<lockVars, atomicVars>>
    /\ UNCHANGED <<promptVars, bitsVars>>

\* lines 265-270: one iteration of the loop.
Reset_Item(t) ==
    /\ Alive
    /\ At(t, "reset", "loop")
    /\ Top(t).item # NULL
    /\ LET item == Top(t).item
           next == rec[item].Next
       IN
       /\ rec' = [rec EXCEPT ![item] = [@ EXCEPT !.AlwaysIgnore = FALSE,
                                               !.TriggerCount = 0,
                                               !.Next = NULL]]
       /\ stack' = SetTop(t, [Top(t) EXCEPT !.item = next])
    /\ UNCHANGED <<triggeredAssertions, assertionHandler, assertionData, exited, nalloc,
                   lastRet, lastGet, ops, emitted, traps, histVars, lockVars, atomicVars>>
    /\ UNCHANGED <<promptVars, bitsVars>>

\* (Faulty variant: the reset returns without emptying the list head.)
MutResetKeepsHead(t) ==
    /\ Alive
    /\ At(t, "reset", "loop")
    /\ Top(t).item = NULL
    /\ stack' = Pop(t)
    /\ UNCHANGED <<rec, triggeredAssertions, assertionHandler, assertionData, exited,
                   nalloc, lastRet, lastGet, ops, emitted, traps, histVars,
                   lockVars, atomicVars, promptVars, bitsVars>>

\* line 272: triggeredAssertions = nil, and the return.
Reset_End(t) ==
    /\ Alive
    /\ At(t, "reset", "loop")
    /\ Top(t).item = NULL
    /\ triggeredAssertions' = NULL
    /\ stack' = Pop(t)
    /\ UNCHANGED <<rec, assertionHandler, assertionData, exited, nalloc,
                   lastRet, lastGet, ops, emitted, traps, histVars, lockVars, atomicVars>>
    /\ UNCHANGED <<promptVars, bitsVars>>

\* ---- SDL_GenerateAssertionReport() ----
\* What debug_print is given for one record.
Entry(r) == [record |-> r,
             Function |-> rec[r].Function, Filename |-> rec[r].Filename,
             Linenum |-> rec[r].Linenum, TriggerCount |-> rec[r].TriggerCount,
             plural |-> IF rec[r].TriggerCount = 1 THEN "" ELSE "s",
             AlwaysIgnore |-> IF rec[r].AlwaysIgnore THEN "yes" ELSE "no"]

\* (Faulty variant: the walk starts at the record after the head.)
MutGenerateAfterHead(t) ==
    /\ TopLevel(t)
    /\ IF triggeredAssertions = NULL
       THEN UNCHANGED stack
       ELSE stack' = Push(t, [Frame("generate", "emit", NULL, NoLoc, FALSE, 0)
                                EXCEPT !.item = rec[triggeredAssertions].Next])
    /\ UNCHANGED <<rec, triggeredAssertions, assertionHandler, assertionData, exited,
                   nalloc, histVars, lockVars, atomicVars, promptVars, bitsVars>>

\* lines 306-310: item = triggeredAssertions; nothing more when it is nil.
Generate_Call(t) ==
    /\ TopLevel(t)
    /\ IF triggeredAssertions = NULL
       THEN UNCHANGED stack
       ELSE stack' = Push(t, [Frame("generate", "emit", NULL, NoLoc, FALSE, 0)
                                EXCEPT !.item = triggeredAssertions])
    /\ UNCHANGED <<rec, triggeredAssertions, assertionHandler, assertionData, exited, nalloc,
                   histVars, lockVars, atomicVars>>
    /\ UNCHANGED <<promptVars, bitsVars>>

\* lines 312-323: one record printed.
Generate_Item(t) ==
    /\ Alive
    /\ At(t, "generate", "emit")
    /\ Top(t).item # NULL
    /\ Len(emitted) <= MaxRecs
    /\ emitted' = Append(emitted, Entry(Top(t).item))
    /\ stack' = SetTop(t, [Top(t) EXCEPT !.item = rec[Top(t).item].Next])
    /\ UNCHANGED <<rec, triggeredAssertions, assertionHandler, assertionData, exited, nalloc,
                   lastRet, lastGet, ops, traps, histVars, lockVars, atomicVars>>
    /\ UNCHANGED <<promptVars, bitsVars>>

\* line 326: SDL_ResetAssertionReport() is called.
Generate_Reset(t) ==
    /\ Alive
    /\ At(t, "generate", "emit")
    /\ Top(t).item = NULL
    /\ stack' = [stack EXCEPT ![t] =
                    Append([@ EXCEPT ![Len(@)] = [Top(t) EXCEPT !.pc = "reset"]],
                           ResetFrame)]
    /\ ResetCalled
    /\ UNCHANGED <<rec, triggeredAssertions, assertionHandler, assertionData, exited, nalloc,
                   lastRet, lastGet, ops, emitted, traps>>
    /\ UNCHANGED <<recsite, sets>>
    /\ UNCHANGED <<lockVars, atomicVars>>
    /\ UNCHANGED <<promptVars, bitsVars>>

\* lines 327-328: the return, once the reset has returned.
Generate_End(t) ==
    /\ Alive
    /\ At(t, "generate", "reset")
    /\ stack' = Pop(t)
    /\ UNCHANGED <<rec, triggeredAssertions, assertionHandler, assertionData, exited, nalloc,
                   lastRet, lastGet, ops, emitted, traps, histVars, lockVars, atomicVars>>
    /\ UNCHANGED <<promptVars, bitsVars>>

\* ---- SDL_SetAssertionHandler(handler, userdata) ----
\* The handlers and userdata values a caller passes; "nil" is the nil handler.
HandlerArgs == {"nil", "ignore", "any"}
Contexts    == {NULL, 1, 2}

\* lines 201-207: what is stored for the arguments.
SetHandlerValue(h) == IF h # "nil" THEN h ELSE "prompt"
\* (Faulty variant: userdata is kept when the handler is nil.)
MutSetKeepsData(h, ctx) == ctx
SetDataValue(h, ctx) == IF h # "nil" THEN ctx ELSE NULL

Set_Call(t, h, ctx) ==
    /\ TopLevel(t)
    /\ stack' = Push(t, [Frame("set", "handler", NULL, NoLoc, FALSE, 0)
                            EXCEPT !.h = h, !.ctx = ctx])
    /\ sets' = Append(sets, <<h, ctx>>)
    /\ UNCHANGED <<rec, triggeredAssertions, assertionHandler, assertionData, exited, nalloc>>
    /\ UNCHANGED <<failures, siteFails, recsite, sticky, stickySite, wasReset,
                   order, cleared>>
    /\ UNCHANGED <<lockVars, atomicVars, promptVars, bitsVars>>

\* lines 202 / 205: the store to assertionHandler.
Set_Handler(t) ==
    /\ Alive
    /\ At(t, "set", "handler")
    /\ assertionHandler' = SetHandlerValue(Top(t).h)
    /\ stack' = SetTop(t, [Top(t) EXCEPT !.pc = "data"])
    /\ UNCHANGED <<rec, triggeredAssertions, assertionData, exited, nalloc,
                   lastRet, lastGet, ops, emitted, traps, histVars,
                   lockVars, atomicVars, promptVars, bitsVars>>

\* lines 203 / 206: the store to assertionData, and the return.
Set_Data(t) ==
    /\ Alive
    /\ At(t, "set", "data")
    /\ assertionData' = SetDataValue(Top(t).h, Top(t).ctx)
    /\ stack' = Pop(t)
    /\ UNCHANGED <<rec, triggeredAssertions, assertionHandler, exited, nalloc,
                   lastRet, lastGet, ops, emitted, traps, histVars,
                   lockVars, atomicVars, promptVars, bitsVars>>

\* ---- SDL_GetAssertionHandler() ----
Get_Call(t) ==
    /\ TopLevel(t)
    /\ stack' = Push(t, Frame("get", "handler", NULL, NoLoc, FALSE, 0))
    /\ UNCHANGED <<rec, triggeredAssertions, assertionHandler, assertionData, exited,
                   nalloc, histVars, lockVars, atomicVars, promptVars, bitsVars>>

\* line 245: the read of assertionHandler.
Get_Handler(t) ==
    /\ Alive
    /\ At(t, "get", "handler")
    /\ stack' = SetTop(t, [Top(t) EXCEPT !.h = assertionHandler, !.pc = "data"])
    /\ UNCHANGED <<rec, triggeredAssertions, assertionHandler, assertionData, exited,
                   nalloc, lastRet, lastGet, ops, emitted, traps, histVars,
                   lockVars, atomicVars, promptVars, bitsVars>>

\* line 245: the read of assertionData, and the return of the pair.
Get_Data(t) ==
    /\ Alive
    /\ At(t, "get", "data")
    /\ lastGet' = [lastGet EXCEPT ![t] = <<Top(t).h, assertionData>>]
    /\ stack' = Pop(t)
    /\ UNCHANGED <<rec, triggeredAssertions, assertionHandler, assertionData, exited,
                   nalloc, lastRet, ops, emitted, traps, histVars,
                   lockVars, atomicVars, promptVars, bitsVars>>

(***************************************************************************)
(* SDL_MostSignificantBitIndex32.                                          *)
(***************************************************************************)
\* A uint32 is held as its halves: the value is hi * 65536 + lo.
HalfSamples == {0, 1, 2, 3, 4, 255, 256, 32767, 32768, 65535}
Word(hi, lo) == [hi |-> hi, lo |-> lo]

\* math/bits.Len32: the number of bits needed to represent x, 0 for 0.
RECURSIVE Len16(_)
Len16(v) == IF v = 0 THEN 0 ELSE 1 + Len16(v \div 2)
Len32(x) == IF x.hi # 0 THEN 16 + Len16(x.hi) ELSE Len16(x.lo)

\* lines 12-17 of part_000.
MostSignificantBitIndex32(x) ==
    IF x.hi = 0 /\ x.lo = 0 THEN -1 ELSE Len32(x)

BitsQuiet == bx = Word(0, 0) /\ bpc = "call" /\ bret = 0

SDL_MostSignificantBitIndex32 ==
    /\ bpc = "call"
    /\ bret' = MostSignificantBitIndex32(bx)
    /\ bpc' = "done"
    /\ UNCHANGED <<bx, lockVars, atomicVars, assertVars>>

(***************************************************************************)
(* Specifications.                                                         *)
(***************************************************************************)
LockQuiet   == LockInit
PromptQuiet == envr = "" /\ stdin = <<>> /\ prompts = 0
AtomicQuiet == aval = 0 /\ pval = 0 /\ AtomicIdle /\ last = NoCall /\ ncalls = 0

NoCalls     == [t \in AThreads |-> 0]
AssertQuiet == EngineInit("any", NoCalls) /\ PromptQuiet

InitLock == LockInit /\ AtomicQuiet /\ AssertQuiet /\ BitsQuiet
NextLock ==
    \E t \in LockThreads :
        \/ SpinLock_Lock(t)
        \/ SpinLock_TryLock(t)
        \/ SpinLock_Unlock(t)
SpecLock == InitLock /\ [][NextLock]_vars

\* The same threads, any of which may call Lock again while it holds the
\* lock; a thread unlocks only the lock it holds.
NextRelock ==
    \/ NextLock
    \/ \E t \in LockThreads : SpinLock_Relock(t)
SpecRelock == InitLock /\ [][NextRelock]_vars

InitRef == RefInit /\ LockQuiet /\ AssertQuiet /\ BitsQuiet
NextRef ==
    \E t \in RefThreads :
        \/ AtomicAdd_Read(t)
        \/ AtomicAdd_Apply(t)
SpecRef == InitRef /\ [][NextRef]_vars

InitSeq == SeqInit /\ LockQuiet /\ AssertQuiet /\ BitsQuiet
NextSeq ==
    \/ \E o \in Int32Samples, n \in Int32Samples : SDL_AtomicCompareAndSwap(o, n)
    \/ \E v \in Int32Samples : SDL_AtomicSet(v)
    \/ SDL_AtomicGet
    \/ \E v \in AddSamples : SDL_AtomicAdd(v)
    \/ SDL_AtomicIncRef
    \/ SDL_AtomicDecRef
    \/ \E o \in PtrSamples, n \in PtrSamples : SDL_AtomicCompareAndSwapPointer(o, n)
    \/ \E v \in PtrSamples : SDL_AtomicSetPtr(v)
    \/ SDL_AtomicGetPtr
SpecSeq == InitSeq /\ [][NextSeq]_vars

\* The engine used by one thread, with a handler that may answer anything
\* and whose own code may fail an assertion.
InitAssert ==
    /\ EngineInit("reentrant", [NoCalls EXCEPT ![1] = MaxOps])
    /\ PromptQuiet /\ LockQuiet /\ AtomicQuiet /\ BitsQuiet
NextAssert ==
    \E t \in {1} :
        \/ \E r \in Statics, loc \in CallLocs : Report_Call(t, r, loc)
        \/ Report_Lock(t)
        \/ Report_Capture(t)
        \/ Report_Add(t)
        \/ Report_Link(t)
        \/ Report_Publish(t)
        \/ Report_Depth(t)
        \/ Report_Invoke(t)
        \/ \E v \in Verdicts : Handler_Return(t, v)
        \/ \E r \in Statics, loc \in CallLocs : Handler_Fail(t, r, loc)
        \/ Handler_Repair(t)
        \/ Report_Finish(t)
        \/ \E s \in Sites, c \in BOOLEAN : Assert_Call(t, s, c)
        \/ Assert_Loop(t)
        \/ Assert_After(t)
        \/ Reset_Call(t)
        \/ Reset_Item(t)
        \/ Reset_End(t)
        \/ Generate_Call(t)
        \/ Generate_Item(t)
        \/ Generate_Reset(t)
        \/ Generate_End(t)
SpecAssert == InitAssert /\ [][NextAssert]_vars

\* The registry used by one thread: records failed by direct calls of
\* SDL_ReportAssertion, a handler that may answer anything, resets and
\* reports.
InitRegistry ==
    /\ EngineInit("any", [NoCalls EXCEPT ![1] = MaxOps])
    /\ PromptQuiet /\ LockQuiet /\ AtomicQuiet /\ BitsQuiet
NextRegistry ==
    \E t \in {1} :
        \/ \E r \in Statics, loc \in CallLocs : Report_Call(t, r, loc)
        \/ Report_Lock(t)
        \/ Report_Capture(t)
        \/ Report_Add(t)
        \/ Report_Link(t)
        \/ Report_Publish(t)
        \/ Report_Depth(t)
        \/ Report_Invoke(t)
        \/ \E v \in Verdicts : Handler_Return(t, v)
        \/ Report_Finish(t)
        \/ Reset_Call(t)
        \/ Reset_Item(t)
        \/ Reset_End(t)
        \/ Generate_Call(t)
        \/ Generate_Item(t)
        \/ Generate_Reset(t)
        \/ Generate_End(t)
SpecRegistry == InitRegistry /\ [][NextRegistry]_vars

\* Two threads, each failing its own record any number of times, with a
\* handler that answers IGNORE, and resetting / reporting the registry.
InitConc ==
    /\ EngineInit("ignore", [t \in AThreads |-> MaxConcOps])
    /\ PromptQuiet /\ LockQuiet /\ AtomicQuiet /\ BitsQuiet
NextConc ==
    \E t \in AThreads :
        \/ \E loc \in CallLocs : Report_Call(t, t, loc)
        \/ Report_Lock(t)
        \/ Report_Capture(t)
        \/ Report_Add(t)
        \/ Report_Link(t)
        \/ Report_Publish(t)
        \/ Report_Depth(t)
        \/ Report_Invoke(t)
        \/ \E v \in Verdicts : Handler_Return(t, v)
        \/ Report_Finish(t)
        \/ Reset_Call(t)
        \/ Reset_Item(t)
        \/ Reset_End(t)
        \/ Generate_Call(t)
        \/ Generate_Item(t)
        \/ Generate_Reset(t)
        \/ Generate_End(t)
SpecConc == InitConc /\ [][NextConc]_vars

\* One thread that sets and reads the handler and fails a record; the
\* process starts with the default handler and SDL_ASSERT=ignore.
FirstLoc == SiteLoc(1)
InitHandler ==
    /\ EngineInit("prompt", [NoCalls EXCEPT ![1] = MaxOps])
    /\ envr = "ignore" /\ stdin = <<>> /\ prompts = 0
    /\ LockQuiet /\ AtomicQuiet /\ BitsQuiet
NextHandler ==
    \E t \in {1} :
        \/ \E h \in HandlerArgs, c \in Contexts : Set_Call(t, h, c)
        \/ Set_Handler(t)
        \/ Set_Data(t)
        \/ Get_Call(t)
        \/ Get_Handler(t)
        \/ Get_Data(t)
        \/ Report_Call(t, 1, FirstLoc)
        \/ Report_Lock(t)
        \/ Report_Capture(t)
        \/ Report_Add(t)
        \/ Report_Link(t)
        \/ Report_Publish(t)
        \/ Report_Depth(t)
        \/ Report_Invoke(t)
        \/ \E v \in Verdicts : Handler_Return(t, v)
        \/ Prompt_Return(t)
        \/ Report_Finish(t)
SpecHandler == InitHandler /\ [][NextHandler]_vars

\* Threads that set and read the handler and fail their own records, all
\* at once; the process starts with a handler answering IGNORE and nil
\* userdata.
SwapArgs == {<<"any", 1>>, <<"nil", 2>>}
InitSwap ==
    /\ EngineInit("ignore", [t \in AThreads |-> MaxConcOps])
    /\ envr = "ignore" /\ stdin = <<>> /\ prompts = 0
    /\ LockQuiet /\ AtomicQuiet /\ BitsQuiet
NextSwap ==
    \E t \in AThreads :
        \/ \E a \in SwapArgs : Set_Call(t, a[1], a[2])
        \/ Set_Handler(t)
        \/ Set_Data(t)
        \/ Get_Call(t)
        \/ Get_Handler(t)
        \/ Get_Data(t)
        \/ Report_Call(t, t, FirstLoc)
        \/ Report_Lock(t)
        \/ Report_Capture(t)
        \/ Report_Add(t)
        \/ Report_Link(t)
        \/ Report_Publish(t)
        \/ Report_Depth(t)
        \/ Report_Invoke(t)
        \/ \E v \in Verdicts : Handler_Return(t, v)
        \/ Prompt_Return(t)
        \/ Report_Finish(t)
SpecSwap == InitSwap /\ [][NextSwap]_vars

\* Threads that each fail their own record, with a handler that answers
\* IGNORE when its caller gets round to answering.  The first thread fails
\* up to MaxBlockedOps times, every other thread once.
BlockedCalls == [t \in AThreads |-> IF t = 1 THEN MaxBlockedOps ELSE 1]
InitBlocked ==
    /\ EngineInit("ignore", BlockedCalls)
    /\ PromptQuiet /\ LockQuiet /\ AtomicQuiet /\ BitsQuiet
NextBlocked ==
    \E t \in AThreads :
        \/ \E loc \in {l \in CallLocs : l.fn = "pkg.f"} : Report_Call(t, t, loc)
        \/ Report_Lock(t)
        \/ Report_Capture(t)
        \/ Report_Add(t)
        \/ Report_Link(t)
        \/ Report_Publish(t)
        \/ Report_Depth(t)
        \/ Report_Invoke(t)
        \/ \E v \in Verdicts : Handler_Return(t, v)
        \/ Report_Finish(t)
SpecBlocked == InitBlocked /\ [][NextBlocked]_vars

\* The default handler answering the failures of one record, for every
\* value of SDL_ASSERT and every input.
InitPrompt ==
    /\ EngineInit("prompt", [NoCalls EXCEPT ![1] = MaxPromptCalls])
    /\ envr \in EnvValues
    /\ stdin \in Inputs
    /\ prompts = 0
    /\ LockQuiet /\ AtomicQuiet /\ BitsQuiet
NextPrompt ==
    \E t \in {1} :
        \/ Report_Call(t, 1, FirstLoc)
        \/ Report_Lock(t)
        \/ Report_Capture(t)
        \/ Report_Add(t)
        \/ Report_Link(t)
        \/ Report_Publish(t)
        \/ Report_Depth(t)
        \/ Report_Invoke(t)
        \/ Prompt_Return(t)
        \/ Report_Finish(t)
SpecPrompt == InitPrompt /\ [][NextPrompt]_vars

\* SDL_MostSignificantBitIndex32 called once, on any of the sampled words.
InitBits ==
    /\ bx \in {Word(h, l) : h \in HalfSamples, l \in HalfSamples}
    /\ bpc = "call"
    /\ bret = 0
    /\ LockQuiet /\ AtomicQuiet /\ AssertQuiet
NextBits == SDL_MostSignificantBitIndex32
SpecBits == InitBits /\ [][NextBits]_vars

(***************************************************************************)
(* Properties.                                                             *)
(***************************************************************************)

\* C1: SDL_SpinLock gives mutual exclusion: whatever the interleaving of
\* threads that Lock() or successfully TryLock(), run a critical section and
\* Unlock(), at most one thread is inside its critical section, and the lock
\* word is 1 exactly while one is.
C1_MutualExclusion ==
    /\ Cardinality({t \in LockThreads : lpc[t] = "held"}) <= 1
    /\ (lock = 1) <=> (\E t \in LockThreads : lpc[t] = "held")

\* C1 witness: one thread is in its critical section while a second spins in
\* Lock() and a third has just had TryLock() refused.
C1_Contended ==
    \E t, u, w \in LockThreads :
        /\ lpc[t] = "held"
        /\ lpc[u] = "spin"
        /\ lpc[w] = "idle" /\ ltry[w] = "false"

\* C2: two threads that each fail their own record any number of times, with
\* a handler answering IGNORE, leave a registry that holds exactly the
\* records that failed, each once, and every record's TriggerCount is the
\* number of times it failed.
C2_RegistryIntact ==
    ((\A t \in AThreads : Idle(t)) /\ ~wasReset)
        => \A r \in Recs :
              /\ Occurrences(r) = (IF failures[r] > 0 THEN 1 ELSE 0)
              /\ rec[r].TriggerCount = failures[r]

\* C3: the registry mutex serializes the critical sections: at most one
\* thread is between the acquire and the release of SDL_ReportAssertion, and
\* no thread runs SDL_ResetAssertionReport / SDL_GenerateAssertionReport
\* while another is inside SDL_ReportAssertion's critical section.
InReportSection(t) ==
    \E i \in 1..Len(stack[t]) : stack[t][i].fn = "report" /\ stack[t][i].mutex
InRegistryOp(t) ==
    \E i \in 1..Len(stack[t]) : stack[t][i].fn \in {"reset", "generate"}
C3_Serialized ==
    \A t, u \in AThreads :
        (t # u /\ InReportSection(t)) => ~InReportSection(u) /\ ~InRegistryOp(u)

\* C4: when the count holds k >= 1 and k threads each call SDL_AtomicDecRef
\* once, exactly one call returns true, the final value is 0, and every
\* SDL_AtomicAdd returns the value that its own addition replaced.
RefCallers == {t \in RefThreads : apc[t] # "off"}
C4_ExactlyOneRelease ==
    (\A t \in RefCallers : apc[t] = "done")
        => /\ Cardinality({t \in RefCallers : aret[t]}) = 1
           /\ aval = 0
           /\ \A t \in RefCallers : aold[t] = arepl[t]

\* C5: a call of SDL_AtomicDecRef on the value v returns true if and only if
\* v = 1, and leaves v - 1 stored, wrapping round from the least int32 to
\* the greatest.
C5_DecRef ==
    last.op = "decref"
        => /\ last.retb <=> (last.pre = 1)
           /\ aval = (IF last.pre = MinInt32 THEN MaxInt32 ELSE last.pre - 1)

\* C5 witness: SDL_AtomicDecRef has just taken the count from 1 to 0 and
\* returned true, after an earlier call on another value.
C5_Released ==
    /\ last.op = "decref"
    /\ last.pre = 1
    /\ last.retb
    /\ aval = 0
    /\ ncalls >= 2

\* C6: SDL_AtomicCompareAndSwap and SDL_AtomicCompareAndSwapPointer return
\* true and store newval if and only if the stored value equals oldval;
\* otherwise they return false and leave the value as it was, every time.
C6_CompareAndSwap ==
    last.op \in {"cas", "casptr"}
        => LET cur == IF last.op = "cas" THEN aval ELSE pval IN
           /\ last.retb <=> (last.pre = last.a1)
           /\ last.retb => cur = last.a2
           /\ ~last.retb => cur = last.pre

\* C6 witness: a compare-and-swap with a stale oldval has failed, as the
\* last of several calls, and the value is what it was.
C6_StaleFails ==
    /\ last.op \in {"cas", "casptr"}
    /\ last.pre # last.a1
    /\ last.a2 # last.pre
    /\ ~last.retb
    /\ ncalls = MaxSeqCalls

\* C7: SDL_AtomicSet and SDL_AtomicSetPtr store v and return the value held
\* just before the call.
C7_SetReturnsPrevious ==
    /\ last.op = "set" => (last.retv = last.pre /\ aval = last.a1)
    /\ last.op = "setptr" => (last.retv = last.pre /\ pval = last.a1)

\* C8: after the Nth consecutive failure of the check at a call site, the
\* registry holds that call site exactly once, with TriggerCount = N.
SiteRecords(s) == {r \in Recs : recsite[r] = s /\ InList(r)}
C8_OneRecordPerSite ==
    \A s \in Sites :
        ((\A t \in AThreads : Idle(t)) /\ Alive /\ siteFails[s] >= 1)
            => \E r \in Recs :
                  /\ SiteRecords(s) = {r}
                  /\ Occurrences(r) = 1
                  /\ rec[r].TriggerCount = siteFails[s]

\* C9: once the handler has answered ALWAYS_IGNORE for a record, the
\* handler is not invoked for a later failure of that record, nor for a
\* later failure of the record's call site, until a reset is called.
HandlerEntered(t) ==
    /\ At(t, "report", "invoke")
    /\ Len(stack'[t]) = Len(stack[t])
    /\ stack'[t][Len(stack[t])].pc = "handler"
C9_AlwaysIgnoreSticks ==
    [][\A t \in AThreads :
          HandlerEntered(t) => /\ Top(t).data \notin sticky
                               /\ recsite[Top(t).data] \notin stickySite]_vars

\* C10: a failure raised by the handler's own code ends the process in the
\* nested SDL_ReportAssertion: the nested call never reaches the handler,
\* so the handler is never entered while it is already running on that stack.
C10_NoRecursiveHandler ==
    \A t \in AThreads :
        \A i, j \in 1..Len(stack[t]) :
            (i < j /\ stack[t][i].fn = "report" /\ stack[t][i].pc = "handler")
                => stack[t][j].pc \notin {"handler", "finish"}

\* C20: TryLock makes one attempt and returns: on a locked SDL_SpinLock it
\* returns false and the lock stays held by its owner; on an unlocked one it
\* returns true and the lock is locked, held by the caller; the caller is
\* never left spinning.
C20_TryLockSingleAttempt ==
    [][\A t \in LockThreads :
          SpinLock_TryLock(t)
              => /\ lpc'[t] # "spin"
                 /\ IF lock = 1
                    THEN /\ ltry'[t] = "false"
                         /\ lock' = 1
                         /\ lpc' = lpc
                    ELSE /\ ltry'[t] = "true"
                         /\ lock' = 1
                         /\ lpc'[t] = "held"
                         /\ \A u \in LockThreads \ {t} : lpc'[u] = lpc[u]]_vars

\* C20 witness: a thread has had TryLock() refused while another thread
\* holds the lock, which that thread took with TryLock() after an Unlock().
C20_RefusedAndTaken ==
    \E t, u \in LockThreads :
        /\ lpc[t] = "idle" /\ ltry[t] = "false"
        /\ lpc[u] = "held" /\ ltry[u] = "true" /\ lrounds[u] = MaxRounds
        /\ lock = 1

\* C19: outside a reset, the registry list is the reverse of the order in
\* which the records first failed since the last reset (a record whose first
\* SDL_ReportAssertion call has not linked it in yet left aside); a record
\* that fails again keeps its place.
Reverse(q) == [i \in 1..Len(q) |-> q[Len(q) + 1 - i]]
BeingListed ==
    {r \in Recs :
        \E t \in AThreads : \E i \in 1..Len(stack[t]) :
            LET f == stack[t][i] IN
            /\ f.fn = "report"
            /\ f.data = r
            /\ \/ f.pc \in {"link", "publish"}
               \/ f.pc \in {"lock", "capture", "add"} /\ rec[r].TriggerCount = 0}
IsListed(r) == r \notin BeingListed
InReset == \E t \in AThreads : \E i \in 1..Len(stack[t]) : stack[t][i].fn = "reset"
C19_ListOrder ==
    ~InReset => List = Reverse(SelectSeq(order, IsListed))

\* C19 witness: two records are listed, and the one that failed first has
\* failed again since and is still behind the other.
C19_RetriggerKeepsPlace ==
    /\ \A t \in AThreads : Idle(t)
    /\ Len(List) = 2
    /\ order = <<List[2], List[1]>>
    /\ failures[List[2]] = 2
    /\ rec[List[2]].TriggerCount = 2

\* C11: when SDL_ResetAssertionReport returns, the list is empty and every
\* record that was in it has TriggerCount 0 and AlwaysIgnore false; the next
\* failure of such a record is a first trigger: when its SDL_ReportAssertion
\* call comes to the handler, the record holds the location of that call,
\* its TriggerCount is 1, it is the head of the list, and the handler is
\* invoked.
C11_ResetThenFirstTrigger ==
    [][\A t \in AThreads :
          /\ (/\ At(t, "reset", "loop")
              /\ Top(t).item = NULL
              /\ Len(stack'[t]) < Len(stack[t]))
                 => /\ triggeredAssertions' = NULL
                    /\ \A r \in cleared : /\ rec'[r].TriggerCount = 0
                                          /\ ~rec'[r].AlwaysIgnore
                                          /\ rec'[r].Next = NULL
          /\ (/\ At(t, "report", "depth")
              /\ Top(t).data \in cleared
              /\ failures[Top(t).data] = 1
              /\ stack'[t] # stack[t])
                 => LET f == Top(t)
                        d == rec[f.data]
                    IN /\ d.Function = f.loc.fn
                       /\ d.Filename = f.loc.file
                       /\ d.Linenum = f.loc.line
                       /\ d.TriggerCount = 1
                       /\ triggeredAssertions = f.data
                       /\ stack'[t][Len(stack[t])].pc = "invoke"]_vars

\* C11 witness: the handler runs for the first failure, since a reset, of a
\* record that the reset took out of the list.
C11_FailsAgainAfterReset ==
    \E t \in AThreads :
        /\ At(t, "report", "handler")
        /\ Depth(t) = 1
        /\ Top(t).data \in cleared
        /\ failures[Top(t).data] = 1
        /\ rec[Top(t).data].TriggerCount = 1
        /\ rec[Top(t).data].Linenum = Top(t).loc.line
        /\ List = <<Top(t).data>>

\* C12: SDL_GenerateAssertionReport called on an empty registry prints
\* nothing and changes neither the records nor the list; called on a
\* non-empty one it has printed, when it goes on to reset, exactly one entry
\* per listed record, in list order, with the record's values, and when it
\* returns the list is empty and every reported record is zeroed.
C12_GenerateReport ==
    [][\A t \in AThreads :
          /\ (Generate_Call(t) /\ triggeredAssertions = NULL)
                 => /\ emitted' = <<>>
                    /\ rec' = rec
                    /\ triggeredAssertions' = NULL
                    /\ stack' = stack
          /\ (Generate_Call(t) /\ triggeredAssertions # NULL)
                 => stack'[t] # <<>>
          /\ Generate_Reset(t)
                 => /\ Len(emitted) = Len(List)
                    /\ \A i \in 1..Len(emitted) :
                          LET e == emitted[i]
                              d == rec[List[i]]
                          IN /\ e.record = List[i]
                             /\ e.Function = d.Function
                             /\ e.Filename = d.Filename
                             /\ e.Linenum = d.Linenum
                             /\ e.TriggerCount = d.TriggerCount
                             /\ (e.AlwaysIgnore = "yes") <=> d.AlwaysIgnore
                    /\ \A i, j \in 1..Len(emitted) :
                          i # j => emitted[i].record # emitted[j].record
          /\ Generate_End(t)
                 => /\ triggeredAssertions = NULL
                    /\ emitted # <<>>
                    /\ \A i \in 1..Len(emitted) :
                          LET d == rec[emitted[i].record] IN
                          /\ d.TriggerCount = 0
                          /\ ~d.AlwaysIgnore
                          /\ d.Next = NULL]_vars

\* C12 witness: the report of a registry of two records, one of them set to
\* be always ignored, has been printed and the reset after it has returned.
C12_TwoReported ==
    \E t \in AThreads :
        /\ At(t, "generate", "reset")
        /\ Len(emitted) = 2
        /\ emitted[1].record # emitted[2].record
        /\ emitted[1].AlwaysIgnore = "yes"
        /\ triggeredAssertions = NULL

\* C13: SDL_enabled_assert calls the engine, the first time and after a
\* RETRY, only if the checked expression fails when it is evaluated then,
\* and returns if it holds; after BREAK it traps once and returns; after
\* IGNORE it returns without a trap; in no case does it call the engine
\* again without a RETRY.
C13_RetryReevaluates ==
    [][\A t \in AThreads :
          /\ Assert_Loop(t)
                 => IF Top(t).now
                    THEN stack'[t] = SubSeq(stack[t], 1, Len(stack[t]) - 1)
                    ELSE Len(stack'[t]) = Len(stack[t]) + 1
          /\ Assert_After(t)
                 => LET f == Top(t) IN
                    /\ f.state = "RETRY"
                          => At(t, "assert", "loop")' /\ traps' = traps
                    /\ f.state = "BREAK"
                          => /\ stack'[t] = SubSeq(stack[t], 1, Len(stack[t]) - 1)
                             /\ traps' = traps + 1
                    /\ f.state = "IGNORE"
                          => /\ stack'[t] = SubSeq(stack[t], 1, Len(stack[t]) - 1)
                             /\ traps' = traps]_vars

\* C14: when the verdict is ABORT, SDL_ReportAssertion ends the process with
\* status 42 and does not return: no caller ever receives ABORT, the only
\* exit status is 42, and once the process has exited no record, list head
\* or call stack changes and no handler is entered.
C14_AbortExits ==
    [][/\ \A t \in AThreads :
            /\ (Report_Finish(t) /\ Top(t).state = "ABORT")
                   => /\ exited' = 42
                      /\ stack' = stack
                      /\ lastRet' = lastRet
            /\ lastRet'[t] # "ABORT"
       /\ exited' \in {0, 42}
       /\ exited # 0 => UNCHANGED <<rec, triggeredAssertions, stack, lastRet, exited>>]_vars

\* C14 witness: the process has exited with status 42 on an ABORT verdict
\* given for the second failure of a record, which is in the registry.
C14_Aborted ==
    \E t \in AThreads :
        /\ exited = 42
        /\ At(t, "report", "finish")
        /\ Top(t).state = "ABORT"
        /\ rec[Top(t).data].TriggerCount = 2
        /\ triggeredAssertions = Top(t).data

\* C17: with the calls made one after another, SDL_GetAssertionHandler
\* returns, and a failing assertion's handler call uses, the pair of the
\* last SDL_SetAssertionHandler call: (h, ctx) when h is not nil,
\* (SDL_PromptAssertion, nil) when h is nil, whatever ctx was.
PairFor(a) == IF a[1] # "nil" THEN a ELSE <<"prompt", NULL>>
C17_SetThenGet ==
    \A t \in AThreads :
        /\ lastGet[t] # <<>> => lastGet[t] = PairFor(sets[Len(sets)])
        /\ At(t, "report", "handler")
               => <<Top(t).h, Top(t).ctx>> = PairFor(sets[Len(sets)])

\* C17 witness: after SDL_SetAssertionHandler(nil, 1) and then
\* SDL_SetAssertionHandler(h, 2) with a handler h of the application, a
\* failing assertion has entered h with userdata 2.
C17_InstalledHandlerRuns ==
    \E t \in AThreads :
        /\ At(t, "report", "handler")
        /\ sets = <<<<"prompt", NULL>>, <<"nil", 1>>, <<"any", 2>>>>
        /\ Top(t).h = "any"
        /\ Top(t).ctx = 2

\* C18: handler and userdata change as one: whatever the interleaving of
\* SDL_SetAssertionHandler with SDL_GetAssertionHandler and
\* SDL_ReportAssertion in other threads, a pair that is returned, or used
\* for a handler call, is one of the pairs that were set.
SetPairs == {PairFor(sets[i]) : i \in 1..Len(sets)}
C18_PairIsAtomic ==
    \A t \in AThreads :
        /\ lastGet[t] # <<>> => lastGet[t] \in SetPairs
        /\ At(t, "report", "handler") => <<Top(t).h, Top(t).ctx>> \in SetPairs

\* C15: when SDL_ASSERT is set and not empty, SDL_PromptAssertion answers
\* without writing a prompt or reading input: abort gives ABORT, break gives
\* BREAK, retry gives RETRY, ignore gives IGNORE, always_ignore gives
\* ALWAYS_IGNORE and any other value gives ABORT; with SDL_ASSERT=ignore
\* every failure returns IGNORE and the process goes on.
C15_EnvOverride ==
    [][\A t \in AThreads :
          /\ (Prompt_Return(t) /\ envr # "")
                 => LET answer == stack'[t][Len(stack[t])].state IN
                    /\ stdin' = stdin
                    /\ prompts' = prompts
                    /\ envr = "abort" => answer = "ABORT"
                    /\ envr = "break" => answer = "BREAK"
                    /\ envr = "retry" => answer = "RETRY"
                    /\ envr = "ignore" => answer = "IGNORE"
                    /\ envr = "always_ignore" => answer = "ALWAYS_IGNORE"
                    /\ envr \notin {"abort", "break", "retry", "ignore", "always_ignore"}
                          => answer = "ABORT"
          /\ envr = "ignore" => lastRet'[t] \in {"none", "IGNORE"} /\ exited' = 0]_vars

\* C15 witness: SDL_ASSERT holds a value that is none of the five names,
\* the handler has answered ABORT, and the input, whose first line is "i",
\* has not been touched.
C15_UnknownValueAborts ==
    \E t \in AThreads :
        /\ At(t, "report", "finish")
        /\ Top(t).h = "prompt"
        /\ Top(t).state = "ABORT"
        /\ envr \notin {"", "abort", "break", "retry", "ignore", "always_ignore"}
        /\ stdin # <<>> /\ Head(stdin) = <<"i">>
        /\ prompts = 0

\* C16: when SDL_ASSERT is not set, SDL_PromptAssertion prompts again after
\* every line that is not exactly a, b, r, i or A (an empty line and a line
\* of several tokens included) and answers with the verdict of the first
\* line that is; it answers ABORT only for a or when the input has run out.
RECURSIVE FirstRecognized(_)
FirstRecognized(in) ==
    IF in = <<>> THEN "ABORT"
    ELSE IF Len(Head(in)) = 1 /\ Choice(Head(in)[1]) # ""
    THEN Choice(Head(in)[1])
    ELSE FirstRecognized(Tail(in))
C16_PromptRepeats ==
    [][\A t \in AThreads :
          (Prompt_Return(t) /\ envr = "")
              => stack'[t][Len(stack[t])].state = FirstRecognized(stdin)]_vars

\* C21: SDL_SpinLock is not re-entrant: when no thread unlocks a lock it
\* does not hold, a thread that calls Lock() while it holds the lock stays
\* inside that call for ever: the lock word stays 1, and the state in which
\* the second Lock() has returned is never reached.
C21_NotReentrant ==
    [][\A t \in LockThreads :
          /\ lpc'[t] # "held2"
          /\ lpc[t] = "relock" => lpc'[t] = "relock" /\ lock' = 1]_vars

\* C21 witness: a thread that holds the lock is spinning in a second
\* Lock(), after it had released and retaken the lock once, and the other
\* threads spin in Lock() behind it.
C21_SelfDeadlock ==
    \E t \in LockThreads :
        /\ lpc[t] = "relock"
        /\ lrounds[t] = MaxRounds
        /\ lock = 1
        /\ \A u \in LockThreads \ {t} : lpc[u] = "spin"

\* C22: SDL_MostSignificantBitIndex32(x) returns -1 for x = 0 and otherwise
\* the index k, counted from 0, of the highest bit set in x: the k with
\* 2^k <= x < 2^(k+1).
RECURSIVE Pow2(_)
Pow2(k) == IF k = 0 THEN 1 ELSE 2 * Pow2(k - 1)
HighestBitIs(x, k) ==
    IF k >= 16
    THEN Pow2(k - 16) <= x.hi /\ x.hi < Pow2(k - 15)
    ELSE x.hi = 0 /\ Pow2(k) <= x.lo /\ x.lo < Pow2(k + 1)
C22_MostSignificantBitIndex ==
    bpc = "done"
        => IF bx = Word(0, 0) THEN bret = -1
           ELSE bret \in 0..31 /\ HighestBitIs(bx, bret)

\* C23: Function, Filename and Linenum of a record change only in the
\* capture step of a SDL_ReportAssertion call on it that finds TriggerCount
\* = 0; a call that finds TriggerCount >= 1 leaves every record as it is in
\* that step, whatever location it was given; and the counting step adds
\* exactly 1 to the record's TriggerCount and changes nothing else, linking
\* the record in only when the count has become 1.
SameLocation(a, b) ==
    a.Function = b.Function /\ a.Filename = b.Filename /\ a.Linenum = b.Linenum
C23_LocationWrittenOnce ==
    [][/\ \A r \in Recs :
            ~SameLocation(rec'[r], rec[r])
                => \E t \in AThreads : /\ Report_Capture(t)
                                       /\ Top(t).data = r
                                       /\ rec[r].TriggerCount = 0
       /\ \A t \in AThreads :
            /\ (Report_Capture(t) /\ rec[Top(t).data].TriggerCount >= 1)
                   => rec' = rec
            /\ Report_Add(t)
                   => LET d == Top(t).data IN
                      /\ rec' = [rec EXCEPT ![d].TriggerCount = rec[d].TriggerCount + 1]
                      /\ rec[d].TriggerCount >= 1 => At(t, "report", "depth")']_vars

\* C23 witness: a record has been counted for the second time by a call
\* that was given another location than the one the record holds.
C23_SecondCallElsewhere ==
    \E t \in AThreads :
        /\ At(t, "report", "depth")
        /\ rec[Top(t).data].TriggerCount = 2
        /\ rec[Top(t).data].Linenum # 0
        /\ rec[Top(t).data].Linenum # Top(t).loc.line
        /\ rec[Top(t).data].Function # Top(t).loc.fn

\* C24: SDL_ReportAssertion never returns ALWAYS_IGNORE: on that verdict
\* the caller receives IGNORE and AlwaysIgnore of the record becomes true,
\* nothing else in the records changing; on RETRY, BREAK and IGNORE the
\* caller receives the verdict and no record changes.
C24_AlwaysIgnoreMapped ==
    [][\A t \in AThreads :
          /\ lastRet'[t] # "ALWAYS_IGNORE"
          /\ Report_Finish(t)
                 => LET f == Top(t) IN
                    /\ f.state = "ALWAYS_IGNORE"
                          => /\ lastRet'[t] = "IGNORE"
                             /\ rec'[f.data].AlwaysIgnore
                             /\ rec' = [rec EXCEPT ![f.data].AlwaysIgnore = TRUE]
                    /\ f.state \in {"RETRY", "BREAK", "IGNORE"}
                          => /\ lastRet'[t] = f.state
                             /\ rec' = rec]_vars

\* C24 witness: the call for the first failure of a record has returned
\* IGNORE after the handler answered ALWAYS_IGNORE, and the flag is set.
C24_ReturnedIgnore ==
    \E t \in AThreads : \E r \in Recs :
        /\ Idle(t)
        /\ lastRet[t] = "IGNORE"
        /\ r \in sticky
        /\ failures[r] = 1
        /\ rec[r].AlwaysIgnore
        /\ rec[r].TriggerCount = 1

\* C25: while a thread waits inside the handler, a thread that has failed
\* another record is never held up: at every point of its
\* SDL_ReportAssertion call up to the registration of its record, its next
\* step can be taken at once.
Registering(u) ==
    /\ stack[u] # <<>>
    /\ Top(u).fn = "report"
    /\ Top(u).pc \in {"lock", "capture", "add", "link", "publish"}
Linking(r) ==
    \E t \in AThreads : \E i \in 1..Len(stack[t]) :
        /\ stack[t][i].fn = "report"
        /\ stack[t][i].data = r
        /\ stack[t][i].pc \in {"link", "publish"}
RegistryShape ==
    /\ Len(List) <= MaxRecs
    /\ \A r \in Recs : Occurrences(r) <= 1
    /\ ~InReset =>
          \A r \in Recs : InList(r) <=> (rec[r].TriggerCount >= 1 /\ ~Linking(r))
C26_RegistryInvariant ==
    [][/\ RegistryShape
       /\ RegistryShape'
       /\ ~InReset =>
             \A r \in Recs :
                 /\ rec'[r].TriggerCount >= rec[r].TriggerCount
                 /\ InList(r) => InList(r)']_vars

\* C26 witness: between two calls, after one record failed, the report was
\* generated (and with it the list reset) and another record failed: the
\* first is off the list with count 0, the second is the whole list.
C26_AfterReportResetReport ==
    \E r, q \in Statics :
        /\ r # q
        /\ \A t \in AThreads : Idle(t)
        /\ cleared = {r}
        /\ rec[r].TriggerCount = 0
        /\ rec[q].TriggerCount = 1
        /\ List = <<q>>

====
